---- MODULE Spec2Model ----
(***************************************************************************)
(* Model of the Rigaku .ras loader (src/reflred/rigaku.py): the header     *)
(* value coercion of _parse, the segment parser loads/_parse, the scan     *)
(* interpreter _interpret/_interpret_axes and the segment joiner join.     *)
(*                                                                         *)
(* Byte strings are sequences of atoms.  An atom is one byte, written as a *)
(* one-character string, except for runs of bytes the code never looks     *)
(* into (a marker literal, a header key name, a time stamp), which are     *)
(* written as one atom.  "xE6" stands for one non-ASCII byte.              *)
(***************************************************************************)
EXTENDS Integers, Sequences, FiniteSets, TLC

VARIABLES
    py3,        \* sys.version_info[0] >= 3 of the running interpreter
    npRagged,   \* numpy build turns a ragged nested list into an object array
    cv_pc,      \* coercion harness: "in" before, "out" after the cascade ran
    cv_in,      \* the bytes between the quotes of one header line
    cv_out,     \* outcome of the coercion cascade on cv_in
    pc,         \* position of loads/_parse
    lines,      \* data.split(b'\r\n'), as far as the parser has looked
    closed,     \* TRUE once len(lines) is fixed to Len(lines)
    index,      \* index of loads/_parse (0-based, as in the code)
    header,     \* header dict of the segment being parsed
    values,     \* values list of the segment being parsed
    datasets,   \* datasets list of loads
    result,     \* outcome of loads: exception raised or list returned
    trail,      \* parser positions visited so far
    it_pc,      \* interpreter harness position
    it_header,  \* header handed to _interpret
    it_values,  \* values handed to _interpret
    it_out,     \* outcome of _interpret
    jn_pc,      \* joiner harness position
    inputs,     \* the datasets list handed to join (dicts holding references)
    inputs0,    \* deep value of every input when join was called
    heap,       \* mutable objects (dicts, arrays) by reference
    joined,     \* the dict join returned
    jn_out,     \* outcome of join: exception raised or "" for a return
    run,        \* which call of loads on the same bytes is under way (1 or 2)
    first,      \* what the first call of loads gave its caller
    others,     \* calls of loads on other bytes made in between
    cm_cache,         \* CACHE_MANAGER._cache: 0 for None, else an object
    cm_file_cache,    \* CACHE_MANAGER._file_cache: 0 for None, else an object
    cm_redis_kwargs,  \* CACHE_MANAGER._redis_kwargs: "None" or "given"
    cm_objs,          \* the cache objects made so far, by kind
    cm_got,           \* what the calls of get_cache returned, in order
    cm_last,          \* the last call of the singleton's methods, and their number
    cm_warned         \* warnings issued by warnings.warn

cvVars == <<cv_pc, cv_in, cv_out>>
psVars == <<pc, lines, closed, index, header, values, datasets, result, trail>>
itVars == <<it_pc, it_header, it_values, it_out>>
jnVars == <<jn_pc, inputs, inputs0, heap, joined, jn_out>>
rpVars == <<run, first, others>>
cmVars ==
    <<cm_cache, cm_file_cache, cm_redis_kwargs, cm_objs, cm_got, cm_last, cm_warned>>
vars == <<py3, npRagged, cvVars, psVars, itVars, jnVars, rpVars, cmVars>>

(***************************************************************************)
(* Bounds of the model.                                                    *)
(***************************************************************************)
MaxValueLen == 4

MaxRows == 3

MaxSegments == 2

MaxDatasets == 2

MaxCalls == 5

(***************************************************************************)
(* Python values.  A number is an exact rational num/den; den = 0 is NaN.  *)
(***************************************************************************)
Abs(n) == IF n < 0 THEN -n ELSE n

RECURSIVE GCD(_, _)
GCD(a, b) == IF b = 0 THEN a ELSE GCD(b, a % b)

PyInt(n) == [tag |-> "int", num |-> n, den |-> 1, s |-> <<>>]

PyFloat(n, d) ==
    LET g == GCD(Abs(n), d)
    IN  [tag |-> "float", num |-> n \div g, den |-> d \div g, s |-> <<>>]

PyStr(t) == [tag |-> "str", num |-> 0, den |-> 1, s |-> t]

PyNone == [tag |-> "None", num |-> 0, den |-> 1, s |-> <<>>]

PyNaN == [tag |-> "float", num |-> 0, den |-> 0, s |-> <<>>]

IsNum(v) == v.tag \in {"int", "float"}

\* Python ==: numbers compare by value across int and float, NaN equals nothing
PyEq(a, b) ==
    IF IsNum(a) /\ IsNum(b)
    THEN a.den # 0 /\ b.den # 0 /\ a.num * b.den = b.num * a.den
    ELSE a.tag = b.tag /\ a.s = b.s

\* outcome of a call: a returned value, or the exception that left it
Ok(v) == [exc |-> "", msg |-> "", line |-> 0, v |-> v]

Raise(kind, msg, ln) == [exc |-> kind, msg |-> msg, line |-> ln, v |-> PyNone]

\* UnicodeDecodeError is a subclass of ValueError
IsValueError(kind) == kind \in {"ValueError", "UnicodeDecodeError"}

\* statement sequencing: an exception of the first statement skips the rest
Bind(o, Rest(_)) == IF o.exc # "" THEN o ELSE Rest(o.v)

(***************************************************************************)
(* Byte string helpers.                                                    *)
(***************************************************************************)
Digits == {"0", "1", "2", "3", "4", "5", "6", "7", "8", "9"}

DigitVal(c) ==
    CASE c = "0" -> 0 [] c = "1" -> 1 [] c = "2" -> 2 [] c = "3" -> 3
      [] c = "4" -> 4 [] c = "5" -> 5 [] c = "6" -> 6 [] c = "7" -> 7
      [] c = "8" -> 8 [] c = "9" -> 9

RECURSIVE DigitsVal(_)
DigitsVal(t) ==
    IF t = <<>> THEN 0
    ELSE 10 * DigitsVal(SubSeq(t, 1, Len(t) - 1)) + DigitVal(t[Len(t)])

RECURSIVE Pow10(_)
Pow10(n) == IF n = 0 THEN 1 ELSE 10 * Pow10(n - 1)

RECURSIVE Strip(_)
Strip(t) ==
    IF t # <<>> /\ t[1] = " " THEN Strip(Tail(t))
    ELSE IF t # <<>> /\ t[Len(t)] = " " THEN Strip(SubSeq(t, 1, Len(t) - 1))
    ELSE t

Unsigned(t) == IF t # <<>> /\ t[1] \in {"+", "-"} THEN Tail(t) ELSE t

Sign(t) == IF t # <<>> /\ t[1] = "-" THEN -1 ELSE 1

RECURSIVE Remove(_, _)
Remove(t, c) ==
    IF t = <<>> THEN <<>>
    ELSE IF t[1] = c THEN Remove(Tail(t), c)
    ELSE <<t[1]>> \o Remove(Tail(t), c)

\* bytes.split(sep): the parts between the occurrences of sep
RECURSIVE SplitOn(_, _)
SplitOn(t, sep) ==
    IF \A i \in DOMAIN t : t[i] # sep THEN <<t>>
    ELSE LET k == CHOOSE i \in DOMAIN t :
                      t[i] = sep /\ \A j \in 1..(i - 1) : t[j] # sep
         IN  <<SubSeq(t, 1, k - 1)>> \o SplitOn(SubSeq(t, k + 1, Len(t)), sep)

\* the non-ASCII byte of the model
IsAscii(t) == \A i \in DOMAIN t : t[i] # "xE6"

\* int(bytes) succeeds: optional blanks, optional sign, decimal digits
IsIntLit(t) ==
    LET body == Unsigned(Strip(t))
    IN  body # <<>> /\ \A i \in DOMAIN body : body[i] \in Digits

IntOf(t) == Sign(Strip(t)) * DigitsVal(Unsigned(Strip(t)))

\* float(bytes) succeeds: optional sign, digits with at most one point
IsFloatLit(t) ==
    LET body == Unsigned(Strip(t))
        digs == Remove(body, ".")
    IN  /\ digs # <<>>
        /\ Len(body) - Len(digs) <= 1
        /\ \A i \in DOMAIN digs : digs[i] \in Digits

FloatOf(t) ==
    LET body == Unsigned(Strip(t))
        parts == SplitOn(body, ".")
        frac == IF Len(parts) = 2 THEN Len(parts[2]) ELSE 0
    IN  PyFloat(Sign(Strip(t)) * DigitsVal(Remove(body, ".")), Pow10(frac))

(***************************************************************************)
(* tostr and the coercion cascade of _parse.                               *)
(***************************************************************************)
tostr(t, isPy3) ==
    IF isPy3 /\ ~IsAscii(t) THEN Raise("UnicodeDecodeError", "ascii", 0)
    ELSE Ok(PyStr(t))

\* mutant: the cascade retries int and float on the part after the '|'
CoerceRetrying(value, isPy3) ==
    IF IsIntLit(value) THEN Ok(PyInt(IntOf(value)))
    ELSE IF IsFloatLit(value) THEN Ok(FloatOf(value))
    ELSE LET parts == SplitOn(value, "|")
             kept == IF Len(parts) = 2 THEN parts[2] ELSE value
         IN  IF IsIntLit(kept) THEN Ok(PyInt(IntOf(kept)))
             ELSE IF IsFloatLit(kept) THEN Ok(FloatOf(kept))
             ELSE tostr(kept, isPy3)

Coerce(value, isPy3) ==
    IF IsIntLit(value) THEN Ok(PyInt(IntOf(value)))
    ELSE IF IsFloatLit(value) THEN Ok(FloatOf(value))
    ELSE LET parts == SplitOn(value, "|")
             kept == IF Len(parts) = 2 THEN parts[2] ELSE value
         IN  tostr(kept, isPy3)

(***************************************************************************)
(* Words of the file format, as byte strings.                              *)
(***************************************************************************)
RAS_DATA_START == <<"*RAS_DATA_START">>

RAS_HEADER_START == <<"*RAS_HEADER_START">>

RAS_HEADER_END == <<"*RAS_HEADER_END">>

RAS_INT_START == <<"*RAS_INT_START">>

RAS_INT_END == <<"*RAS_INT_END">>

RAS_DATA_END == <<"*RAS_DATA_END">>

DQ == "\""

W_None == <<"N", "o", "n", "e">>

W_Dash == <<"-">>

W_mm == <<"m", "m">>

W_Ka1 == <<"K", "a", "1">>

W_Ka2 == <<"K", "a", "2">>

W_Kb == <<"K", "b">>

W_Attenuator == <<"Attenuator">>

W_IncidentMonochromator == <<"IncidentMonochromator">>

\* '%d' % idx
RECURSIVE DecText(_)
DecText(i) ==
    LET d == CHOOSE c \in Digits : DigitVal(c) = i % 10
    IN  IF i < 10 THEN <<d>> ELSE DecText(i \div 10) \o <<d>>

\* 'MEAS_COND_AXIS_<field>-%d' % idx
AxisKey(field, idx) == <<field>> \o DecText(idx)

\* TIME_FORMAT "%m/%d/%y %H:%M:%S": the time stamps of the model, in time order
TimeStamps ==
    <<"03/01/19 10:00:00", "03/01/19 11:30:00", "03/02/19 09:15:00",
      "03/02/19 12:45:00">>

\* strptime(text, TIME_FORMAT): the struct_time, modelled by its rank in time
strptime(v) ==
    IF v.tag # "str" THEN Raise("TypeError", "strptime", 0)
    ELSE IF Len(v.s) = 1 /\ \E k \in DOMAIN TimeStamps : TimeStamps[k] = v.s[1]
    THEN Ok(CHOOSE k \in DOMAIN TimeStamps : TimeStamps[k] = v.s[1])
    ELSE Raise("ValueError", "time data does not match format", 0)

(***************************************************************************)
(* Arithmetic on Python numbers.                                           *)
(***************************************************************************)
\* a / b with true division; the caller checks b is not zero
NumDiv(a, b) ==
    IF a.den = 0 \/ b.den = 0 THEN PyNaN
    ELSE LET n == a.num * b.den
             d == a.den * b.num
         IN  IF d < 0 THEN PyFloat(-n, -d) ELSE PyFloat(n, d)

NumMul(a, b) ==
    IF a.den = 0 \/ b.den = 0 THEN PyNaN
    ELSE PyFloat(a.num * b.num, a.den * b.den)

NumAdd(a, b) ==
    IF a.den = 0 \/ b.den = 0 THEN PyNaN
    ELSE PyFloat(a.num * b.den + b.num * a.den, a.den * b.den)

\* the square root of a non-negative rational, kept exact
PySqrt(a) == [tag |-> "sqrt", num |-> a.num, den |-> a.den, s |-> <<>>]

\* np.std([a, b, c], ddof=1): root of the squared deviations over n - 1
NumStd3(a, b, c) ==
    LET mean == NumDiv(NumAdd(NumAdd(a, b), c), PyInt(3))
        dev(z) == NumAdd(z, NumMul(PyInt(-1), mean))
        sq(z) == NumMul(dev(z), dev(z))
        ssq == NumAdd(NumAdd(sq(a), sq(b)), sq(c))
    IN  PySqrt(NumDiv(ssq, PyInt(2)))

(***************************************************************************)
(* _interpret_axes: the axis table of one header.                          *)
(***************************************************************************)
\* the six companion fields of one axis index, in the order the code reads them
AxisFields ==
    <<"MEAS_COND_AXIS_NAME-", "MEAS_COND_AXIS_UNIT-",
      "MEAS_COND_AXIS_NAME_INTERNAL-", "MEAS_COND_AXIS_NAME_MAGICNO-",
      "MEAS_COND_AXIS_OFFSET-", "MEAS_COND_AXIS_POSITION-">>

\* header[key] for each key of keys in turn: the first key that is missing
MissingKeys(h, keys) == {k \in DOMAIN keys : keys[k] \notin DOMAIN h}

FirstMissing(h, keys) ==
    CHOOSE k \in MissingKeys(h, keys) : \A j \in MissingKeys(h, keys) : k <= j

\* float(text) of a str
FloatOfStr(t) ==
    IF IsIntLit(t) THEN Ok(PyFloat(IntOf(t), 1))
    ELSE IF IsFloatLit(t) THEN Ok(FloatOf(t))
    ELSE Raise("ValueError", "could not convert string to float", 0)

EndsWith(t, suffix) ==
    /\ Len(t) >= Len(suffix)
    /\ SubSeq(t, Len(t) - Len(suffix) + 1, Len(t)) = suffix

\* float(numerator)/float(denominator)
Ratio(n, d) ==
    IF d.num = 0 THEN Raise("ZeroDivisionError", "float division", 0)
    ELSE Ok(NumDiv(n, d))

\* the branch "if name == 'Attenuator'" of the position decoding
AttenuatorPosition(position) ==
    IF position.tag # "str"
    THEN Raise("TypeError", "argument of type 'int' is not iterable", 0)
    ELSE IF \E i \in DOMAIN position.s : position.s[i] = "/"
    THEN IF Len(SplitOn(position.s, "/")) # 2
         THEN Raise("ValueError", "too many values to unpack", 0)
         ELSE Bind(FloatOfStr(SplitOn(position.s, "/")[1]), LAMBDA n :
              Bind(FloatOfStr(SplitOn(position.s, "/")[2]), LAMBDA d :
              Ratio(n, d)))
    ELSE IF position.s \in {<<>>, W_Dash, W_None} THEN Ok(PyFloat(1, 1))
    ELSE Ok(position)

\* mutant: the texts "None" and "-" are tested before the "mm" suffix and
\* give each other's sentinel
DecodePositionSentinelsSwapped(name, unit, position) ==
    IF PyEq(name, PyStr(W_Attenuator))
    THEN Bind(AttenuatorPosition(position), LAMBDA p : Ok(<<unit, p>>))
    ELSE IF PyEq(position, PyStr(W_None)) THEN Ok(<<unit, PyNaN>>)
    ELSE IF PyEq(position, PyStr(W_Dash)) THEN Ok(<<unit, PyNone>>)
    ELSE IF ~IsNum(position) /\ EndsWith(position.s, W_mm)
    THEN Bind(FloatOfStr(SubSeq(position.s, 1, Len(position.s) - 2)),
              LAMBDA p : Ok(<<PyStr(W_mm), p>>))
    ELSE Ok(<<unit, position>>)

\* the position decoding of one axis: the decoded <<unit, position>>
DecodePosition(name, unit, position) ==
    IF PyEq(name, PyStr(W_Attenuator))
    THEN Bind(AttenuatorPosition(position), LAMBDA p : Ok(<<unit, p>>))
    ELSE IF ~IsNum(position) /\ EndsWith(position.s, W_mm)
    THEN Bind(FloatOfStr(SubSeq(position.s, 1, Len(position.s) - 2)),
              LAMBDA p : Ok(<<PyStr(W_mm), p>>))
    ELSE IF PyEq(position, PyStr(W_None)) THEN Ok(<<unit, PyNone>>)
    ELSE IF PyEq(position, PyStr(W_Dash)) THEN Ok(<<unit, PyNaN>>)
    ELSE Ok(<<unit, position>>)

DecodeOffset(offset) == IF PyEq(offset, PyStr(W_Dash)) THEN PyNaN ELSE offset

\* header[key] for every key of keys in turn: KeyError at the first one missing
Require(h, keys) ==
    IF MissingKeys(h, keys) # {}
    THEN Raise("KeyError", keys[FirstMissing(h, keys)][1], 0)
    ELSE Ok(TRUE)

\* the while loop of _interpret_axes from index idx on, axis built so far
RECURSIVE AxesFrom(_, _, _)
AxesFrom(h, idx, axis) ==
    IF AxisKey(AxisFields[1], idx) \notin DOMAIN h THEN Ok(axis)
    ELSE Bind(Require(h, [k \in DOMAIN AxisFields |->
                             AxisKey(AxisFields[k], idx)]), LAMBDA found :
         Bind(DecodePosition(h[AxisKey(AxisFields[3], idx)],
                             h[AxisKey(AxisFields[2], idx)],
                             h[AxisKey(AxisFields[6], idx)]), LAMBDA dec :
         AxesFrom(h, idx + 1,
             (h[AxisKey(AxisFields[3], idx)] :>
                  <<h[AxisKey(AxisFields[1], idx)], dec[1], dec[2],
                    DecodeOffset(h[AxisKey(AxisFields[5], idx)])>>) @@ axis)))

EmptyDict == [k \in {} |-> PyNone]

InterpretAxes(h) == AxesFrom(h, 0, EmptyDict)

(***************************************************************************)
(* _interpret: one Dataset from the header and the rows of one segment.    *)
(***************************************************************************)
MONOCHROMATOR_WAVELENGTH_RESOLUTION ==
    (<<"Ge(220)x2">> :> PyFloat(38, 100000)) @@ (<<"Ge(400)x2">> :> PyNaN)
    @@ (<<"Ge(220)x4">> :> PyFloat(15, 100000))
    @@ (<<"Ge(440)x4">> :> PyFloat(23, 1000000))

MONOCHROMATOR_ANGULAR_DIVERGENCE ==
    (<<"mirror">> :> PyFloat(41, 1000)) @@ (<<"Ge(220)x2">> :> PyFloat(88, 10000))
    @@ (<<"Ge(400)x2">> :> PyFloat(12, 1000))
    @@ (<<"Ge(220)x4">> :> PyFloat(34, 10000))
    @@ (<<"Ge(440)x4">> :> PyFloat(15, 10000))

\* table.get(key, np.NaN)
TableGet(table, key) ==
    IF key.tag = "str" /\ key.s \in DOMAIN table THEN table[key.s] ELSE PyNaN

\* x, I, scale = np.array(values).T, then I*scale: the three columns
ArrayColumns(vals, ragged) ==
    LET n == Len(vals)
        uniform == \A i, j \in DOMAIN vals : Len(vals[i]) = Len(vals[j])
    IN  IF n = 0
        THEN Raise("ValueError", "not enough values to unpack", 0)
        ELSE IF uniform
        THEN IF Len(vals[1]) = 3
             THEN Ok([c \in 1..3 |-> [k \in 1..n |-> vals[k][c]]])
             ELSE Raise("ValueError", "values to unpack", 0)
        ELSE IF ~ragged
        THEN Raise("ValueError", "inhomogeneous shape", 0)
        ELSE IF n = 3
        THEN Raise("TypeError", "can't multiply sequence by non-int", 0)
        ELSE Raise("ValueError", "values to unpack", 0)

\* np.sqrt(I)*scale of one row
YErr(intensity, scale) == [root_of |-> intensity, times |-> scale]

\* the header keys read by plain header[key], in the order of the code
ScalarKeys ==
    <<"MEAS_SCAN_AXIS_X", "MEAS_SCAN_UNIT_X", "MEAS_SCAN_RESOLUTION_X",
      "DISP_TITLE_Y", "MEAS_SCAN_UNIT_Y", "MEAS_SCAN_SPEED",
      "MEAS_SCAN_SPEED_UNIT", "FILE_SAMPLE", "FILE_COMMENT",
      "MEAS_SCAN_START_TIME">>

HKeys(names) == [k \in DOMAIN names |-> <<names[k]>>]

\* the else branch: (2*Ka1 + Ka2)/3 and np.std([Ka1, Ka1, Ka2], ddof=1)
WeightedAlpha(Ka1, Ka2) ==
    IF ~IsNum(Ka1) \/ ~IsNum(Ka2)
    THEN Raise("TypeError", "unsupported operand type", 0)
    ELSE Ok(<<NumDiv(NumAdd(NumMul(PyInt(2), Ka1), Ka2), PyInt(3)),
              NumStd3(Ka1, Ka1, Ka2)>>)

\* the if/elif/else on MEAS_COND_XG_WAVE_TYPE: <<wavelength, resolution>>
Wavelength(h, tableResolution) ==
    Bind(Require(h, <<<<"MEAS_COND_XG_WAVE_TYPE">>>>), LAMBDA found :
    IF \/ PyEq(h[<<"MEAS_COND_XG_WAVE_TYPE">>], PyStr(W_Ka1))
       \/ PyEq(h[<<"MEAS_COND_XG_WAVE_TYPE">>], PyStr(W_Ka2))
    THEN Bind(Require(h, <<<<"HW_XG_WAVE_LENGTH_ALPHA1">>>>), LAMBDA a :
              Ok(<<h[<<"HW_XG_WAVE_LENGTH_ALPHA1">>], tableResolution>>))
    ELSE IF PyEq(h[<<"MEAS_COND_XG_WAVE_TYPE">>], PyStr(W_Kb))
    THEN Bind(Require(h, <<<<"HW_XG_WAVE_LENGTH_BETA">>>>), LAMBDA b :
              Ok(<<h[<<"HW_XG_WAVE_LENGTH_BETA">>], tableResolution>>))
    ELSE Bind(Require(h, <<<<"HW_XG_WAVE_LENGTH_ALPHA1">>,
                           <<"HW_XG_WAVE_LENGTH_ALPHA2">>,
                           <<"HW_XG_WAVE_LENGTH_BETA">>>>), LAMBDA abc :
              WeightedAlpha(h[<<"HW_XG_WAVE_LENGTH_ALPHA1">>],
                            h[<<"HW_XG_WAVE_LENGTH_ALPHA2">>])))

\* R['axis']['IncidentMonochromator'][2]
Monochromator(axis) ==
    IF PyStr(W_IncidentMonochromator) \notin DOMAIN axis
    THEN Raise("KeyError", "IncidentMonochromator", 0)
    ELSE Ok(axis[PyStr(W_IncidentMonochromator)][3])

\* the dict R once every statement of _interpret has run
Dataset(h, cols, start, end, axis, mono, wl) ==
    [x |-> cols[1],
     y |-> [k \in DOMAIN cols[1] |-> NumMul(cols[2][k], cols[3][k])],
     y_err |-> [k \in DOMAIN cols[1] |-> YErr(cols[2][k], cols[3][k])],
     x_label |-> h[<<"MEAS_SCAN_AXIS_X">>],
     x_unit |-> h[<<"MEAS_SCAN_UNIT_X">>],
     x_resolution |-> h[<<"MEAS_SCAN_RESOLUTION_X">>],
     y_label |-> h[<<"DISP_TITLE_Y">>],
     y_unit |-> h[<<"MEAS_SCAN_UNIT_Y">>],
     count_time |-> h[<<"MEAS_SCAN_SPEED">>],
     count_time_unit |-> h[<<"MEAS_SCAN_SPEED_UNIT">>],
     sample |-> h[<<"FILE_SAMPLE">>],
     comment |-> h[<<"FILE_COMMENT">>],
     start_time |-> start,
     end_time |-> end,
     axis |-> axis,
     scan_axis |-> h[<<"MEAS_SCAN_AXIS_X_INTERNAL">>],
     scan_mode |-> h[<<"MEAS_SCAN_MODE">>],
     slit1_distance |-> PyFloat(114 - 300, 1),
     slit2_distance |-> PyFloat(190 - 300, 1),
     slit3_distance |-> PyFloat(187, 1),
     slit4_distance |-> PyFloat(300, 1),
     wavelength_resolution |-> wl[2],
     angular_divergence |-> TableGet(MONOCHROMATOR_ANGULAR_DIVERGENCE, mono),
     wavelength |-> wl[1],
     full_header |-> h]

Interpret(h, vals, ragged) ==
    Bind(ArrayColumns(vals, ragged), LAMBDA cols :
    Bind(Require(h, HKeys(ScalarKeys)), LAMBDA scalars :
    Bind(strptime(h[<<"MEAS_SCAN_START_TIME">>]), LAMBDA start :
    Bind(Require(h, <<<<"MEAS_SCAN_END_TIME">>>>), LAMBDA endKey :
    Bind(strptime(h[<<"MEAS_SCAN_END_TIME">>]), LAMBDA end :
    Bind(InterpretAxes(h), LAMBDA axis :
    Bind(Require(h, HKeys(<<"MEAS_SCAN_AXIS_X_INTERNAL", "MEAS_SCAN_MODE">>)),
         LAMBDA tailKeys :
    Bind(Monochromator(axis), LAMBDA mono :
    Bind(Wavelength(h, TableGet(MONOCHROMATOR_WAVELENGTH_RESOLUTION, mono)),
         LAMBDA wl :
    Ok(Dataset(h, cols, start, end, axis, mono, wl)))))))))))

(***************************************************************************)
(* _parse, line by line.                                                   *)
(***************************************************************************)
\* line.split(b' ', 1)
SplitOnce(t, sep) ==
    IF \A i \in DOMAIN t : t[i] # sep THEN <<t>>
    ELSE LET k == CHOOSE i \in DOMAIN t :
                      t[i] = sep /\ \A j \in 1..(i - 1) : t[j] # sep
         IN  <<SubSeq(t, 1, k - 1), SubSeq(t, k + 1, Len(t))>>

\* line.split(): the runs between blanks
SplitBlanks(t) == SelectSeq(SplitOn(t, " "), LAMBDA part : part # <<>>)

\* mutant: the error of a malformed header line carries the 0-based index
HeaderLineZeroBased(line, lineno, isPy3) ==
    IF \/ Len(SplitOnce(line, " ")) # 2
       \/ SplitOnce(line, " ")[1] = <<>>
       \/ SplitOnce(line, " ")[1][1] # "*"
       \/ SplitOnce(line, " ")[2] = <<>>
       \/ SplitOnce(line, " ")[2][1] # DQ
       \/ SplitOnce(line, " ")[2][Len(SplitOnce(line, " ")[2])] # DQ
    THEN Raise("ValueError", "is not '*KEY value'", lineno - 1)
    ELSE Bind(tostr(Tail(SplitOnce(line, " ")[1]), isPy3), LAMBDA key :
         Bind(Coerce(SubSeq(SplitOnce(line, " ")[2], 2,
                            Len(SplitOnce(line, " ")[2]) - 1), isPy3),
              LAMBDA value : Ok(<<key.s, value>>)))

\* one header line that is not the end marker: the <<key, value>> to store;
\* lineno is the value of index after its increment
HeaderLine(line, lineno, isPy3) ==
    IF \/ Len(SplitOnce(line, " ")) # 2
       \/ SplitOnce(line, " ")[1] = <<>>
       \/ SplitOnce(line, " ")[1][1] # "*"
       \/ SplitOnce(line, " ")[2] = <<>>
       \/ SplitOnce(line, " ")[2][1] # DQ
       \/ SplitOnce(line, " ")[2][Len(SplitOnce(line, " ")[2])] # DQ
    THEN Raise("ValueError", "is not '*KEY value'", lineno)
    ELSE Bind(tostr(Tail(SplitOnce(line, " ")[1]), isPy3), LAMBDA key :
         Bind(Coerce(SubSeq(SplitOnce(line, " ")[2], 2,
                            Len(SplitOnce(line, " ")[2]) - 1), isPy3),
              LAMBDA value : Ok(<<key.s, value>>)))

\* one data line that is not the end marker: [float(v) for v in line.split()]
DataLine(line, lineno) ==
    IF \E k \in DOMAIN SplitBlanks(line) :
           FloatOfStr(SplitBlanks(line)[k]).exc # ""
    THEN Raise("ValueError", "is not a set of values", lineno)
    ELSE Ok([k \in DOMAIN SplitBlanks(line) |->
                FloatOfStr(SplitBlanks(line)[k]).v])

(***************************************************************************)
(* The input files of the model.  The lines of a file are chosen one by    *)
(* one, each when the parser first looks at its index; choosing "no more   *)
(* lines" fixes len(lines).  This draws every file whose segments hold the *)
(* header lines of FileHeaderText(seg) in that order, up to the point where    *)
(* another line is put in their place, with up to MaxRows data lines.      *)
(***************************************************************************)
EMPTY == <<>>

Markers ==
    {RAS_DATA_START, RAS_HEADER_START, RAS_HEADER_END, RAS_INT_START,
     RAS_INT_END, RAS_DATA_END}

\* *KEY "value"
Quoted(key, value) == <<"*">> \o key \o <<" ", DQ>> \o value \o <<DQ>>

\* the axis group of index idx
AxisText(idx, label, unit, name, offset, position) ==
    <<Quoted(AxisKey("MEAS_COND_AXIS_NAME-", idx), label),
      Quoted(AxisKey("MEAS_COND_AXIS_UNIT-", idx), unit),
      Quoted(AxisKey("MEAS_COND_AXIS_NAME_INTERNAL-", idx), name),
      Quoted(AxisKey("MEAS_COND_AXIS_NAME_MAGICNO-", idx), DecText(idx + 1)),
      Quoted(AxisKey("MEAS_COND_AXIS_OFFSET-", idx), offset),
      Quoted(AxisKey("MEAS_COND_AXIS_POSITION-", idx), position)>>

TimeText(k) == <<TimeStamps[((k - 1) % Len(TimeStamps)) + 1]>>

\* stands for a header line that is left out
Absent == <<"(absent)">>

\* the header lines of one segment; o gives the segment number, the scan
\* axis, the attenuator position, the wave-type flag (or Absent), and the
\* position and offset of the slit box axis
HeaderText(o) ==
    <<Quoted(<<"FILE_COMMENT">>, <<"xE6", "|", "r", "u", "n">>),
      Quoted(<<"FILE_SAMPLE">>, <<"S">> \o DecText(o.seg)),
      Quoted(<<"DISP_TITLE_Y">>, <<"Intensity">>),
      Quoted(<<"HW_XG_WAVE_LENGTH_ALPHA1">>, <<"1", ".", "5">>),
      Quoted(<<"HW_XG_WAVE_LENGTH_ALPHA2">>, <<"1", ".", "6">>),
      Quoted(<<"HW_XG_WAVE_LENGTH_BETA">>, <<"1", ".", "4">>)>>
    \o AxisText(0, <<"Attenuator">>, <<>>, W_Attenuator, W_Dash, o.att)
    \o AxisText(1, <<"Incident monochromator">>, <<>>, W_IncidentMonochromator,
                W_Dash, <<"Ge(220)x2">>)
    \o AxisText(2, <<"Incident slit box">>, <<"deg">>, <<"IncidentSlitBox">>,
                o.offset, o.slit)
    \o (IF o.wave = Absent THEN <<>>
        ELSE <<Quoted(<<"MEAS_COND_XG_WAVE_TYPE">>, o.wave)>>)
    \o <<Quoted(<<"MEAS_SCAN_AXIS_X">>, <<"2-Theta/Omega">>),
         Quoted(<<"MEAS_SCAN_AXIS_X_INTERNAL">>, o.scan),
         Quoted(<<"MEAS_SCAN_END_TIME">>, TimeText(o.seg + 1)),
         Quoted(<<"MEAS_SCAN_MODE">>, <<"STEP">>),
         Quoted(<<"MEAS_SCAN_RESOLUTION_X">>, <<"0", ".", "0", "1">>),
         Quoted(<<"MEAS_SCAN_SPEED">>, DecText(o.seg) \o <<".", "5">>),
         Quoted(<<"MEAS_SCAN_SPEED_UNIT">>, <<"min/step">>),
         Quoted(<<"MEAS_SCAN_START_TIME">>, TimeText(o.seg)),
         Quoted(<<"MEAS_SCAN_UNIT_X">>, <<"deg">>),
         Quoted(<<"MEAS_SCAN_UNIT_Y">>, <<"counts">>)>>

ScanAxes == {<<"TwoThetaOmega">>, <<"Omega">>}

\* the header lines of segment seg of the files of SpecParse
FileHeaderText(seg) ==
    HeaderText([seg |-> seg, scan |-> <<"TwoThetaOmega">>,
                att |-> <<"1", "/", "1", "0", "0">>, wave |-> W_Ka1,
                slit |-> <<"0", ".", "5", "m", "m">>, offset |-> W_Dash])

\* the k-th data line of a block: x = k, intensity = k*k, scale = 2
RowText(k) == DecText(k) \o <<" ">> \o DecText(k * k) \o <<" ", "2">>

ShortRow == <<"7", " ", "9">>

BadRow == <<"7", " ", "x", " ", "2">>

\* the lines offered for the next index; a data block holds at most MaxRows
\* rows, at most one of them short or empty
InputLines ==
    LET begun == Len(datasets) + (IF pc = "SegmentDone" THEN 1 ELSE 0)
        seg == begun + 1
        got == Cardinality(DOMAIN header)
        full == pc = "InIntBlock" /\ Len(values) >= MaxRows
        short == pc = "InIntBlock" /\ \E k \in DOMAIN values : Len(values[k]) # 3
    IN  (Markers \ (IF begun >= MaxSegments THEN {RAS_HEADER_START} ELSE {}))
        \cup {BadRow, <<"*", "FILE_SAMPLE", " ", "S">>}
        \cup (IF got < Len(FileHeaderText(seg))
              THEN {FileHeaderText(seg)[got + 1]} ELSE {})
        \cup (IF full THEN {} ELSE {RowText(Len(values) + 1)})
        \cup (IF full \/ short THEN {} ELSE {EMPTY, ShortRow})

\* the parser looks at lines[i]: the file as known afterwards
Look(i) ==
    IF i < Len(lines) \/ closed THEN lines' = lines /\ closed' = closed
    ELSE \/ \E l \in InputLines : lines' = Append(lines, l) /\ closed' = FALSE
         \/ lines' = lines /\ closed' = TRUE

(***************************************************************************)
(* loads and _parse as a state machine over the lines.                     *)
(***************************************************************************)
NoExc == Raise("", "", 0)

HasLine(i) == i < Len(lines')

\* lines[i] of the code (0-based)
LineAt(i) == lines'[i + 1]

Goto(p) == pc' = p /\ trail' = (IF p = pc THEN trail ELSE Append(trail, p))

\* the exception leaves loads
Throw(e) ==
    /\ result' = Raise(e.exc, e.msg, e.line)
    /\ Goto("raised")

IndexErr == Raise("IndexError", "list index out of range", 0)

\* mutant: the datasets list outlives the call (it is not made anew)
LoadsStartKeepingDatasets ==
    /\ UNCHANGED <<py3, npRagged, cmVars, rpVars, cvVars, itVars, jnVars>>
    /\ pc = "ExpectFileStart"
    /\ UNCHANGED <<lines, closed, header, values>>
    /\ IF lines[1] # RAS_DATA_START
       THEN /\ Throw(Raise("ValueError", "not a Rigaku XRD RAS file", 0))
            /\ UNCHANGED <<index, datasets>>
       ELSE /\ index' = 1
            /\ datasets' = datasets
            /\ result' = result
            /\ Goto("ExpectHeaderStart")

\* loads, lines 137-141: the first line must be the file-start marker
LoadsStart ==
    /\ UNCHANGED <<py3, npRagged, cmVars, rpVars, cvVars, itVars, jnVars>>
    /\ pc = "ExpectFileStart"
    /\ UNCHANGED <<lines, closed, header, values>>
    /\ IF lines[1] # RAS_DATA_START
       THEN /\ Throw(Raise("ValueError", "not a Rigaku XRD RAS file", 0))
            /\ UNCHANGED <<index, datasets>>
       ELSE /\ index' = 1
            /\ datasets' = <<>>
            /\ result' = result
            /\ Goto("ExpectHeaderStart")

\* _parse, lines 173-176
ParseHeaderStart ==
    /\ UNCHANGED <<py3, npRagged, cmVars, rpVars, cvVars, itVars, jnVars>>
    /\ pc = "ExpectHeaderStart"
    /\ Look(index)
    /\ UNCHANGED <<values, datasets>>
    /\ IF ~HasLine(index)
       THEN Throw(IndexErr) /\ UNCHANGED <<index, header>>
       ELSE IF LineAt(index) # RAS_HEADER_START
       THEN /\ Throw(Raise("ValueError", "missing *RAS_HEADER_START", 0))
            /\ UNCHANGED <<index, header>>
       ELSE /\ index' = index + 1
            /\ header' = EmptyDict
            /\ result' = result
            /\ Goto("InHeader")

\* header[key] = value, or the exception of the line leaves loads
StoreOrThrow(kv) ==
    IF kv.exc # ""
    THEN Throw(kv) /\ header' = header
    ELSE /\ header' = (kv.v[1] :> kv.v[2]) @@ header
         /\ result' = result
         /\ Goto("InHeader")

\* _parse, lines 177-211: one turn of the header loop
ParseHeaderLine ==
    /\ UNCHANGED <<py3, npRagged, cmVars, rpVars, cvVars, itVars, jnVars>>
    /\ pc = "InHeader"
    /\ Look(index)
    /\ UNCHANGED <<values, datasets>>
    /\ IF ~HasLine(index)
       THEN /\ Throw(Raise("ValueError", "missing *RAS_HEADER_END", 0))
            /\ UNCHANGED <<index, header>>
       ELSE /\ index' = index + 1
            /\ IF LineAt(index) = RAS_HEADER_END
               THEN /\ header' = header
                    /\ result' = result
                    /\ Goto("ExpectIntStart")
               ELSE StoreOrThrow(HeaderLine(LineAt(index), index + 1, py3))

\* _parse, lines 213-216
ParseIntStart ==
    /\ UNCHANGED <<py3, npRagged, cmVars, rpVars, cvVars, itVars, jnVars>>
    /\ pc = "ExpectIntStart"
    /\ Look(index)
    /\ UNCHANGED <<header, datasets>>
    /\ IF ~HasLine(index)
       THEN Throw(IndexErr) /\ UNCHANGED <<index, values>>
       ELSE IF LineAt(index) # RAS_INT_START
       THEN /\ Throw(Raise("ValueError", "missing *RAS_INT_START", 0))
            /\ UNCHANGED <<index, values>>
       ELSE /\ index' = index + 1
            /\ values' = <<>>
            /\ result' = result
            /\ Goto("InIntBlock")

\* values.append(row), or the exception of the line leaves loads
AppendOrThrow(row) ==
    IF row.exc # ""
    THEN Throw(row) /\ values' = values
    ELSE /\ values' = Append(values, row.v)
         /\ result' = result
         /\ Goto("InIntBlock")

\* _parse, lines 217-229: one turn of the data loop
ParseIntLine ==
    /\ UNCHANGED <<py3, npRagged, cmVars, rpVars, cvVars, itVars, jnVars>>
    /\ pc = "InIntBlock"
    /\ Look(index)
    /\ UNCHANGED <<header, datasets>>
    /\ IF ~HasLine(index)
       THEN /\ Throw(Raise("ValueError", "missing *RAS_INT_END", 0))
            /\ UNCHANGED <<index, values>>
       ELSE /\ index' = index + 1
            /\ IF LineAt(index) = RAS_INT_END
               THEN /\ values' = values
                    /\ result' = result
                    /\ Goto("SegmentDone")
               ELSE AppendOrThrow(DataLine(LineAt(index), index + 1))

\* mutant: loads returns after the first segment whatever the next line is
AppendDatasetAndStop(data) ==
    IF data.exc # ""
    THEN /\ Throw(data)
         /\ UNCHANGED <<lines, closed, datasets>>
    ELSE /\ Look(index)
         /\ datasets' = Append(datasets, data.v)
         /\ IF ~HasLine(index) THEN Throw(IndexErr)
            ELSE result' = result /\ Goto("returned")

\* datasets.append(data) and the test for the file end, or the exception
AppendDataset(data) ==
    IF data.exc # ""
    THEN /\ Throw(data)
         /\ UNCHANGED <<lines, closed, datasets>>
    ELSE /\ Look(index)
         /\ datasets' = Append(datasets, data.v)
         /\ IF ~HasLine(index) THEN Throw(IndexErr)
            ELSE IF LineAt(index) = RAS_DATA_END
            THEN result' = result /\ Goto("returned")
            ELSE result' = result /\ Goto("ExpectHeaderStart")

\* loads, lines 144-148: interpret the segment, then look for the file end
LoadsSegmentDone ==
    /\ UNCHANGED <<py3, npRagged, cmVars, rpVars, cvVars, itVars, jnVars>>
    /\ pc = "SegmentDone"
    /\ UNCHANGED <<index, header, values>>
    /\ AppendDataset(Interpret(header, values, npRagged))

ParseNext ==
    \/ LoadsStart
    \/ ParseHeaderStart
    \/ ParseHeaderLine
    \/ ParseIntStart
    \/ ParseIntLine
    \/ LoadsSegmentDone

(***************************************************************************)
(* Harnesses at rest: the state of the parts a specification does not run. *)
(***************************************************************************)
CvIdle == cv_pc = "idle" /\ cv_in = <<>> /\ cv_out = NoExc

PsIdle ==
    /\ pc = "idle"
    /\ lines = <<EMPTY>>
    /\ closed = TRUE
    /\ index = 0
    /\ header = EmptyDict
    /\ values = <<>>
    /\ datasets = <<>>
    /\ result = NoExc
    /\ trail = <<>>

ItIdle ==
    /\ it_pc = "idle"
    /\ it_header = EmptyDict
    /\ it_values = <<>>
    /\ it_out = NoExc

JnIdle ==
    /\ jn_pc = "idle"
    /\ inputs = <<>>
    /\ inputs0 = <<>>
    /\ heap = <<>>
    /\ joined = EmptyDict
    /\ jn_out = NoExc

\* what loads gives its caller: the list returned or the exception raised
Outcome(returned, list, exc) ==
    [returned |-> returned, datasets |-> IF returned THEN list ELSE <<>>,
     exc |-> exc.exc, msg |-> exc.msg, line |-> exc.line]

\* CacheManager.__init__, lines 68-71, and no call made
CmIdle ==
    /\ cm_cache = 0
    /\ cm_file_cache = 0
    /\ cm_redis_kwargs = "None"
    /\ cm_objs = <<>>
    /\ cm_got = <<>>
    /\ cm_last = [n |-> 0, op |-> "none", redis |-> "untried", exc |-> "", ret |-> 0]
    /\ cm_warned = 0

RpIdle == run = 1 /\ first = Outcome(FALSE, <<>>, NoExc) /\ others = 0

(***************************************************************************)
(* SpecCoerce: the coercion cascade applied to every short quoted value.   *)
(***************************************************************************)
ValueBytes == {"5", ".", "-", "|", "a", "xE6"}

BoundedSeqs(S, n) == UNION {[1..k -> S] : k \in 0..n}

CoerceInit ==
    /\ py3 \in BOOLEAN
    /\ npRagged = FALSE
    /\ cv_pc = "in"
    /\ cv_in \in BoundedSeqs(ValueBytes, MaxValueLen)
    /\ cv_out = NoExc
    /\ PsIdle /\ ItIdle /\ JnIdle /\ RpIdle /\ CmIdle

\* _parse, lines 194-208, on the bytes between the quotes
CoerceValue ==
    /\ cv_pc = "in"
    /\ cv_out' = Coerce(cv_in, py3)
    /\ cv_pc' = "out"
    /\ UNCHANGED <<py3, npRagged, cmVars, rpVars, cv_in, psVars, itVars, jnVars>>

CoerceNext == CoerceValue

SpecCoerce == CoerceInit /\ [][CoerceNext]_vars

(***************************************************************************)
(* SpecParse: loads on the files of InputLines.                            *)
(***************************************************************************)
ParseInit ==
    /\ py3 = TRUE
    /\ npRagged \in BOOLEAN
    /\ pc = "ExpectFileStart"
    /\ lines \in {<<RAS_DATA_START>>, <<EMPTY>>, <<RAS_HEADER_START>>}
    /\ closed = FALSE
    /\ index = 0
    /\ header = EmptyDict
    /\ values = <<>>
    /\ datasets = <<>>
    /\ result = NoExc
    /\ trail = <<"ExpectFileStart">>
    /\ CvIdle /\ ItIdle /\ JnIdle /\ RpIdle /\ CmIdle

SpecParse == ParseInit /\ [][ParseNext]_vars

(***************************************************************************)
(* Claims about the segment parser (SpecParse).                            *)
(***************************************************************************)
Terminated == pc \in {"raised", "returned"}

\* the lines the parser has looked at, as 1-based positions of lines
Seen == 1..(IF index < Len(lines) THEN index ELSE Len(lines))

\* the input ended where the parser wanted one more line
AtEof == closed /\ index = Len(lines)

\* the segment grammar as a recogniser of its own: the position reached after
\* the first n lines, "Bad" once a marker is missing or out of order
RECURSIVE GrammarAfter(_)
GrammarAfter(n) ==
    IF n = 0 THEN "ExpectFileStart"
    ELSE LET before == GrammarAfter(n - 1)
             l == lines[n]
         IN  CASE before = "ExpectFileStart" ->
                    IF l = RAS_DATA_START THEN "ExpectHeaderStart" ELSE "Bad"
               [] before = "ExpectHeaderStart" ->
                    IF l = RAS_HEADER_START THEN "InHeader" ELSE "Bad"
               [] before = "InHeader" ->
                    IF l = RAS_HEADER_END THEN "ExpectIntStart"
                    ELSE IF l \in Markers THEN "Bad" ELSE "InHeader"
               [] before = "ExpectIntStart" ->
                    IF l = RAS_INT_START THEN "InIntBlock" ELSE "Bad"
               [] before = "InIntBlock" ->
                    IF l = RAS_INT_END THEN "SegmentDone"
                    ELSE IF l \in Markers THEN "Bad" ELSE "InIntBlock"
               [] before = "SegmentDone" ->
                    IF l = RAS_DATA_END THEN "FileEnd"
                    ELSE IF l = RAS_HEADER_START THEN "InHeader" ELSE "Bad"
               [] OTHER -> before

\* the file violates the segment grammar: a marker is missing or out of order
\* among the lines looked at, or the input ends before the file-end marker
GrammarViolated ==
    \/ GrammarAfter(Len(lines)) = "Bad"
    \/ closed /\ GrammarAfter(Len(lines)) # "FileEnd"

\* C1: every input that violates the segment grammar makes loads raise
\* FormatError (the ValueError of loads/_parse), never another kind of error,
\* and return no Dataset list.
C1_GrammarViolationRaisesFormatError ==
    (Terminated /\ GrammarViolated) =>
        (pc = "raised" /\ IsValueError(result.exc))

\* the parser was reading header lines when the exception left loads
RaisedInHeader ==
    pc = "raised" /\ Len(trail) >= 2 /\ trail[Len(trail) - 1] = "InHeader"

\* where the header end marker should be there is nothing, an empty line or
\* the data start marker
HeaderEndMissing ==
    /\ RaisedInHeader
    /\ \/ AtEof
       \/ ~closed /\ lines[index] \in {EMPTY, RAS_INT_START}

\* C2 as stated: a file whose header start is never followed by the header
\* end (by nothing, by an empty trailing line or by the data start marker)
\* raises the FormatError that names *RAS_HEADER_END.
C2_MissingHeaderEndIsNamed ==
    HeaderEndMissing =>
        (result.exc = "ValueError" /\ result.msg = "missing *RAS_HEADER_END")

\* C2 amended: such a file raises FormatError; the error names
\* *RAS_HEADER_END when the input ends inside the header, and it reports the
\* line as not '*KEY value', with its line number, when an empty line or the
\* data start marker stands in the place of a header line.
C2_MissingHeaderEndRaises ==
    HeaderEndMissing =>
        /\ result.exc = "ValueError"
        /\ AtEof => result.msg = "missing *RAS_HEADER_END"
        /\ ~AtEof => result.msg = "is not '*KEY value'" /\ result.line = index

\* C2 witness: the input ended after some header lines, and an empty line
\* ended another header
C2_Witness ==
    /\ HeaderEndMissing
    /\ AtEof
    /\ Cardinality(DOMAIN header) >= 2

\* line n is a line of a data block: a data start marker precedes it with no
\* marker in between
IsDataLine(n) ==
    /\ lines[n] \notin Markers
    /\ \E j \in 1..(n - 1) :
           /\ lines[j] = RAS_INT_START
           /\ \A m \in (j + 1)..n : lines[m] \notin Markers

\* line n does not hold three floating-point tokens
NotThreeFloats(n) ==
    \/ Len(SplitBlanks(lines[n])) # 3
    \/ \E k \in DOMAIN SplitBlanks(lines[n]) :
           FloatOfStr(SplitBlanks(lines[n])[k]).exc # ""

\* C3: a data-block line that does not hold three floating-point tokens
\* (fewer tokens, an empty line, a token that is no float) makes loads raise
\* the FormatError of that line and return no Dataset.
C3_ShortDataLineRaisesFormatError ==
    \A n \in Seen :
        (Terminated /\ IsDataLine(n) /\ NotThreeFloats(n)) =>
            /\ pc = "raised"
            /\ result.exc = "ValueError"
            /\ result.msg = "is not a set of values"
            /\ result.line = n

(***************************************************************************)
(* Claims about the header value coercion (SpecCoerce).                    *)
(***************************************************************************)
CountOf(t, c) == Cardinality({i \in DOMAIN t : t[i] = c})

\* the bytes after the first '|'
AfterBar(t) ==
    LET bar == CHOOSE i \in DOMAIN t :
                   t[i] = "|" /\ \A j \in 1..(i - 1) : t[j] # "|"
    IN  SubSeq(t, bar + 1, Len(t))

\* the cascade as C4 states it: integer, float, else the part after the '|'
\* with integer and float parsing retried on it, else the text itself
ClaimedCascade(t) ==
    IF IsIntLit(t) THEN PyInt(IntOf(t))
    ELSE IF IsFloatLit(t) THEN FloatOf(t)
    ELSE IF CountOf(t, "|") >= 1
    THEN LET part == SplitOn(t, "|")[2]
         IN  IF IsIntLit(part) THEN PyInt(IntOf(part))
             ELSE IF IsFloatLit(part) THEN FloatOf(part)
             ELSE PyStr(part)
    ELSE PyStr(t)

\* C4 as stated, for the values with at most one '|': a value with a '|'
\* separator is stored as the integer or float its second part parses to
\* ("local|5" becomes the integer 5).
C4_ReferencePartIsRetried ==
    (cv_pc = "out" /\ IsAscii(cv_in) /\ CountOf(cv_in, "|") <= 1) =>
        cv_out = Ok(ClaimedCascade(cv_in))

\* C4 amended: the value becomes an Integer if it parses as an integer, else
\* a Float if it parses as a float; else, if it holds exactly one '|', the
\* part after it is kept as Text with no further number parsing ("local|5"
\* becomes the text "5"); else the text is kept unchanged.  The kept text is
\* stored when it is ASCII or the interpreter is Python 2, and its decoding
\* raises UnicodeDecodeError otherwise.
C4_Cascade ==
    cv_pc = "out" =>
        LET kept == IF CountOf(cv_in, "|") = 1 THEN AfterBar(cv_in) ELSE cv_in
        IN  IF IsIntLit(cv_in) THEN cv_out = Ok(PyInt(IntOf(cv_in)))
            ELSE IF IsFloatLit(cv_in) THEN cv_out = Ok(FloatOf(cv_in))
            ELSE IF IsAscii(kept) \/ ~py3 THEN cv_out = Ok(PyStr(kept))
            ELSE cv_out.exc = "UnicodeDecodeError"

\* C4 witness: "a|5" has been coerced to the text "5"
C4_Witness ==
    /\ cv_pc = "out"
    /\ cv_in = <<"a", "|", "5">>
    /\ cv_out = Ok(PyStr(<<"5">>))

\* C5: every quoted value, whatever its bytes, is coerced to exactly one
\* Integer, Float or Text without raising.
C5_CoercionIsTotal ==
    cv_pc = "out" =>
        (cv_out.exc = "" /\ cv_out.v.tag \in {"int", "float", "str"})

(***************************************************************************)
(* SpecInterpret: _interpret on the headers _parse builds from HeaderText. *)
(***************************************************************************)
\* the header dict _parse builds from the first n lines of text
RECURSIVE HeaderFrom(_, _)
HeaderFrom(text, n) ==
    IF n = 0 THEN EmptyDict
    ELSE (HeaderLine(text[n], n, TRUE).v[1] :> HeaderLine(text[n], n, TRUE).v[2])
         @@ HeaderFrom(text, n - 1)

\* the values list _parse builds from n data lines
Rows(n) == [k \in 1..n |-> DataLine(RowText(k), k).v]

AttenuatorTexts ==
    {<<"1", "/", "1", "0", "0">>, <<>>, W_Dash, W_None, <<"1">>,
     <<"0", ".", "5">>, <<"o", "p", "e", "n">>, <<"2", "m", "m">>}

WaveTexts == {W_Ka1, W_Ka2, W_Kb, <<"K", "a">>, Absent}

SlitTexts ==
    {<<"0", ".", "5", "m", "m">>, W_None, W_Dash, <<"2">>, <<"P", "S", "A">>}

OffsetTexts == {W_Dash, <<"0", ".", "1">>}

HeaderOptions ==
    [seg : {1}, scan : ScanAxes, att : AttenuatorTexts, wave : WaveTexts,
     slit : SlitTexts, offset : OffsetTexts]

InterpretInit ==
    /\ py3 = TRUE
    /\ npRagged = FALSE
    /\ it_pc = "in"
    /\ \E o \in HeaderOptions :
           it_header = HeaderFrom(HeaderText(o), Len(HeaderText(o)))
    /\ \E n \in 0..MaxRows : it_values = Rows(n)
    /\ it_out = NoExc
    /\ CvIdle /\ PsIdle /\ JnIdle /\ RpIdle /\ CmIdle

\* loads, line 144: data = _interpret(header, values)
InterpretSegment ==
    /\ it_pc = "in"
    /\ it_out' = Interpret(it_header, it_values, npRagged)
    /\ it_pc' = "out"
    /\ UNCHANGED <<py3, npRagged, cmVars, rpVars, it_header, it_values, cvVars, psVars, jnVars>>

InterpretNext == InterpretSegment

SpecInterpret == InterpretInit /\ [][InterpretNext]_vars

(***************************************************************************)
(* Claims about the scan interpreter (SpecInterpret).                      *)
(***************************************************************************)
\* the coerced header value of the attenuator position (axis index 0)
AttenuatorRaw == it_header[AxisKey("MEAS_COND_AXIS_POSITION-", 0)]

\* the header is handed over with at least one data row
Interpreted == it_pc = "out" /\ it_values # <<>>

WaveFlagGiven == <<"MEAS_COND_XG_WAVE_TYPE">> \in DOMAIN it_header

\* the position of the Attenuator entry of the axis table that was built
AttenuatorBuilt == it_out.v.axis[PyStr(W_Attenuator)][3]

\* C6: the Attenuator position "n/d" becomes the float n/d; "", "-" and
\* "None" become 1.0; any other position, in particular one the coercer
\* already turned into a number, is left as it is and the entry is built.
C6_AttenuatorPositionDecoded ==
    (Interpreted /\ WaveFlagGiven) =>
        /\ it_out.exc = ""
        /\ AttenuatorRaw = PyStr(<<"1", "/", "1", "0", "0">>)
               => AttenuatorBuilt = PyFloat(1, 100)
        /\ AttenuatorRaw \in {PyStr(<<>>), PyStr(W_Dash), PyStr(W_None)}
               => AttenuatorBuilt = PyFloat(1, 1)
        /\ (IsNum(AttenuatorRaw) \/ AttenuatorRaw = PyStr(<<"o", "p", "e", "n">>))
               => AttenuatorBuilt = AttenuatorRaw

Alpha1 == it_header[<<"HW_XG_WAVE_LENGTH_ALPHA1">>]

Alpha2 == it_header[<<"HW_XG_WAVE_LENGTH_ALPHA2">>]

Beta == it_header[<<"HW_XG_WAVE_LENGTH_BETA">>]

\* w is (2*Ka1 + Ka2)/3
IsWeightedAlpha(w) ==
    /\ IsNum(w)
    /\ w.num * 3 * Alpha1.den * Alpha2.den
           = w.den * (2 * Alpha1.num * Alpha2.den + Alpha2.num * Alpha1.den)

\* r is the sample standard deviation of [Ka1, Ka1, Ka2]: the root of
\* (Ka1 - Ka2)^2 / 3
IsAlphaDeviation(r) ==
    LET diff == Alpha1.num * Alpha2.den - Alpha2.num * Alpha1.den
        den == Alpha1.den * Alpha2.den
    IN  /\ r.tag = "sqrt"
        /\ r.num * 3 * den * den = r.den * diff * diff

\* C7: flag "Ka1" or "Ka2" gives the alpha-1 value, "Kb" the beta value, any
\* other flag and an absent flag give (2*Ka1 + Ka2)/3 with the sample
\* standard deviation of [Ka1, Ka1, Ka2]; a Dataset is produced in each case.
C7_WavelengthByFlag ==
    (Interpreted /\ AttenuatorRaw.tag = "str") =>
        /\ it_out.exc = ""
        /\ IF ~WaveFlagGiven
           THEN /\ IsWeightedAlpha(it_out.v.wavelength)
                /\ IsAlphaDeviation(it_out.v.wavelength_resolution)
           ELSE IF it_header[<<"MEAS_COND_XG_WAVE_TYPE">>]
                       \in {PyStr(W_Ka1), PyStr(W_Ka2)}
           THEN it_out.v.wavelength = Alpha1
           ELSE IF it_header[<<"MEAS_COND_XG_WAVE_TYPE">>] = PyStr(W_Kb)
           THEN it_out.v.wavelength = Beta
           ELSE /\ IsWeightedAlpha(it_out.v.wavelength)
                /\ IsAlphaDeviation(it_out.v.wavelength_resolution)

(***************************************************************************)
(* join.  A dict holds references: the axis table, the header mapping and  *)
(* the arrays of a Dataset are objects of the heap, named by their index.  *)
(***************************************************************************)
\* the heap holding the objects of the Datasets ds, five for each
HeapOf(ds) ==
    [r \in 1..(5 * Len(ds)) |->
        LET d == ds[((r - 1) \div 5) + 1]
            f == ((r - 1) % 5) + 1
        IN  CASE f = 1 -> d.axis [] f = 2 -> d.full_header [] f = 3 -> d.x
              [] f = 4 -> d.y [] f = 5 -> d.y_err]

\* the dict of the i-th Dataset, its objects replaced by their references
DictOf(d, i) ==
    [d EXCEPT !.axis = 5 * (i - 1) + 1, !.full_header = 5 * (i - 1) + 2,
              !.x = 5 * (i - 1) + 3, !.y = 5 * (i - 1) + 4,
              !.y_err = 5 * (i - 1) + 5]

\* the value of a Dataset dict: every reference replaced by its object
Deep(d, hp) ==
    [d EXCEPT !.axis = hp[d.axis], !.full_header = hp[d.full_header],
              !.x = hp[d.x], !.y = hp[d.y], !.y_err = hp[d.y_err]]

\* any(data['scan_axis'] != first['scan_axis'] for data in datasets)
ScanMismatch(ds) ==
    \E i \in DOMAIN ds : ~PyEq(ds[i].scan_axis, ds[1].scan_axis)

\* mutant: the attenuator test is left out
AttenuatorCheckSkipped(ds, hp, i) == Ok(FALSE)

\* any(data['axis']['Attenuator'][2] != first['axis']['Attenuator'][2] ...)
\* from the i-th Dataset on
RECURSIVE AttenuatorCheck(_, _, _)
AttenuatorCheck(ds, hp, i) ==
    IF i > Len(ds) THEN Ok(FALSE)
    ELSE IF PyStr(W_Attenuator) \notin DOMAIN hp[ds[i].axis]
    THEN Raise("KeyError", "Attenuator", 0)
    ELSE IF PyStr(W_Attenuator) \notin DOMAIN hp[ds[1].axis]
    THEN Raise("KeyError", "Attenuator", 0)
    ELSE IF ~PyEq(hp[ds[i].axis][PyStr(W_Attenuator)][3],
                  hp[ds[1].axis][PyStr(W_Attenuator)][3])
    THEN Ok(TRUE)
    ELSE AttenuatorCheck(ds, hp, i + 1)

\* np.hstack([data[field] for data in datasets])
RECURSIVE Stacked(_, _, _, _)
Stacked(ds, hp, field, n) ==
    IF n = 0 THEN <<>>
    ELSE Stacked(ds, hp, field, n - 1) \o hp[ds[n][field]]

\* data['count_time']*np.ones_like(data['x']), stacked
RECURSIVE CountTimes(_, _, _)
CountTimes(ds, hp, n) ==
    IF n = 0 THEN <<>>
    ELSE CountTimes(ds, hp, n - 1)
         \o [k \in DOMAIN hp[ds[n].x] |-> NumMul(ds[n].count_time, PyFloat(1, 1))]

MinOf(S) == CHOOSE m \in S : \A z \in S : m <= z

MaxOf(S) == CHOOSE m \in S : \A z \in S : m >= z

\* lines 162-170: the dict R, its four new arrays being the next heap objects
Merged(ds, hp) ==
    [ds[1] EXCEPT
        !.x = Len(hp) + 1, !.y = Len(hp) + 2, !.y_err = Len(hp) + 3,
        !.count_time = Len(hp) + 4,
        !.start_time = MinOf({ds[i].start_time : i \in DOMAIN ds}),
        !.end_time = MaxOf({ds[i].end_time : i \in DOMAIN ds})]

\* mutant: every row gets the count time of the first input
MergedArraysFirstCountTime(ds, hp) ==
    <<Stacked(ds, hp, "x", Len(ds)), Stacked(ds, hp, "y", Len(ds)),
      Stacked(ds, hp, "y_err", Len(ds)),
      [k \in DOMAIN Stacked(ds, hp, "x", Len(ds)) |->
          NumMul(ds[1].count_time, PyFloat(1, 1))]>>

\* the four arrays join allocates, in the order of allocation
MergedArrays(ds, hp) ==
    <<Stacked(ds, hp, "x", Len(ds)), Stacked(ds, hp, "y", Len(ds)),
      Stacked(ds, hp, "y_err", Len(ds)), CountTimes(ds, hp, Len(ds))>>

\* lines 154-160: the exception of join, if it raises one
JoinChecks(ds, hp) ==
    IF ds = <<>> THEN Raise("IndexError", "list index out of range", 0)
    ELSE IF ScanMismatch(ds)
    THEN Raise("ValueError", "Can't mix different scan types", 0)
    ELSE Bind(AttenuatorCheck(ds, hp, 1), LAMBDA differs :
         IF differs
         THEN Raise("ValueError", "Can't mix different attenuation values", 0)
         ELSE IF \E i \in DOMAIN ds : ~IsNum(ds[i].count_time)
         THEN Raise("TypeError", "can't multiply sequence by non-int", 0)
         ELSE Ok(TRUE))

(***************************************************************************)
(* SpecJoin: join on lists of the Datasets _interpret builds, followed by  *)
(* an in-place update of the dict it returned.                             *)
(***************************************************************************)
JoinOptions ==
    [seg : {1, 2, 3}, scan : ScanAxes,
     att : {<<"1", "/", "1", "0", "0">>, <<>>, W_Dash}, wave : {W_Ka1},
     slit : {<<"0", ".", "5", "m", "m">>}, offset : {W_Dash}]

JoinRowCounts == {1, 2}

DatasetPool ==
    {Interpret(HeaderFrom(HeaderText(o), Len(HeaderText(o))), Rows(n), FALSE).v :
        o \in JoinOptions, n \in JoinRowCounts}

JoinInit ==
    /\ py3 = TRUE
    /\ npRagged = FALSE
    /\ jn_pc = "in"
    /\ \E n \in 0..MaxDatasets : inputs0 \in [1..n -> DatasetPool]
    /\ inputs = [i \in DOMAIN inputs0 |-> DictOf(inputs0[i], i)]
    /\ heap = HeapOf(inputs0)
    /\ joined = EmptyDict
    /\ jn_out = NoExc
    /\ CvIdle /\ PsIdle /\ ItIdle /\ RpIdle /\ CmIdle

\* R = join(datasets)
JoinCall ==
    /\ jn_pc = "in"
    /\ jn_out' = Raise(JoinChecks(inputs, heap).exc, JoinChecks(inputs, heap).msg, 0)
    /\ IF JoinChecks(inputs, heap).exc # ""
       THEN jn_pc' = "raised" /\ UNCHANGED <<heap, joined>>
       ELSE /\ jn_pc' = "returned"
            /\ joined' = Merged(inputs, heap)
            /\ heap' = heap \o MergedArrays(inputs, heap)
    /\ UNCHANGED <<py3, npRagged, cmVars, rpVars, inputs, inputs0, cvVars, psVars, itVars>>

\* the caller updates the returned dict in place: R[field][key] = value for a
\* dict, R[field][0] = value for an array
UpdateJoined ==
    /\ jn_pc = "returned"
    /\ \E field \in {"axis", "full_header", "x"} :
           heap' = [heap EXCEPT ![joined[field]] =
                       IF field = "x" THEN [@ EXCEPT ![1] = PyNaN]
                       ELSE (IF field = "axis" THEN PyStr(<<"Z">>) ELSE <<"Z">>)
                            :> PyNone @@ @]
    /\ jn_pc' = "updated"
    /\ UNCHANGED <<py3, npRagged, cmVars, rpVars, inputs, inputs0, joined, jn_out,
                   cvVars, psVars, itVars>>

JoinNext == JoinCall \/ UpdateJoined

SpecJoin == JoinInit /\ [][JoinNext]_vars

(***************************************************************************)
(* Claims about join (SpecJoin).                                           *)
(***************************************************************************)
JoinDone == jn_pc # "in" /\ inputs0 # <<>>

AttenuatorOf(d) == d.axis[PyStr(W_Attenuator)][3]

SameScanAxis == \A i \in DOMAIN inputs0 : inputs0[i].scan_axis = inputs0[1].scan_axis

SameAttenuator ==
    \A i \in DOMAIN inputs0 : PyEq(AttenuatorOf(inputs0[i]), AttenuatorOf(inputs0[1]))

NothingMerged == joined = EmptyDict /\ heap = HeapOf(inputs0)

\* C8: join succeeds exactly when every input has the scan axis and the
\* Attenuator position of the first; otherwise it raises the ValueError of the
\* field that differs, the scan axis being tested before the attenuator, and
\* nothing is merged.
C8_JoinSucceedsIffCompatible ==
    JoinDone =>
        /\ (SameScanAxis /\ SameAttenuator) <=> jn_out.exc = ""
        /\ ~SameScanAxis =>
               /\ jn_out.exc = "ValueError"
               /\ jn_out.msg = "Can't mix different scan types"
               /\ NothingMerged
        /\ (SameScanAxis /\ ~SameAttenuator) =>
               /\ jn_out.exc = "ValueError"
               /\ jn_out.msg = "Can't mix different attenuation values"
               /\ NothingMerged

\* C8 witness: two inputs of one scan axis and different attenuator positions
\* were refused
C8_Witness ==
    /\ jn_pc = "raised"
    /\ Len(inputs0) = 2
    /\ SameScanAxis
    /\ ~SameAttenuator
    /\ jn_out.msg = "Can't mix different attenuation values"

\* the rows of the inputs before the i-th
RECURSIVE RowsBefore(_)
RowsBefore(i) == IF i <= 1 THEN 0 ELSE RowsBefore(i - 1) + Len(inputs0[i - 1].x)

JoinedValue == Deep(joined, heap)

OtherFields ==
    DOMAIN joined \ {"x", "y", "y_err", "count_time", "start_time", "end_time"}

\* C9: the arrays of the result have the summed length; row k of input i is at
\* position (rows before i) + k of x, y and y_err, where count_time is the
\* count time of input i; start_time is the least start time, end_time the
\* greatest end time, and every other field is that of the first input.
C9_JoinConcatenates ==
    jn_pc = "returned" =>
        /\ \A f \in {"x", "y", "y_err", "count_time"} :
               Len(heap[joined[f]]) = RowsBefore(Len(inputs0) + 1)
        /\ \A i \in DOMAIN inputs0 : \A k \in DOMAIN inputs0[i].x :
               /\ JoinedValue.x[RowsBefore(i) + k] = inputs0[i].x[k]
               /\ JoinedValue.y[RowsBefore(i) + k] = inputs0[i].y[k]
               /\ JoinedValue.y_err[RowsBefore(i) + k] = inputs0[i].y_err[k]
               /\ PyEq(heap[joined.count_time][RowsBefore(i) + k],
                       inputs0[i].count_time)
        /\ \A i \in DOMAIN inputs0 :
               /\ joined.start_time <= inputs0[i].start_time
               /\ joined.end_time >= inputs0[i].end_time
        /\ \E i \in DOMAIN inputs0 : joined.start_time = inputs0[i].start_time
        /\ \E i \in DOMAIN inputs0 : joined.end_time = inputs0[i].end_time
        /\ \A f \in OtherFields : JoinedValue[f] = inputs0[1][f]

\* C9 witness: two inputs were joined, the later one first, with different
\* count times and row counts
C9_Witness ==
    /\ jn_pc = "returned"
    /\ Len(inputs0) = 2
    /\ inputs0[1].start_time > inputs0[2].start_time
    /\ inputs0[1].end_time > inputs0[2].end_time
    /\ ~PyEq(inputs0[1].count_time, inputs0[2].count_time)
    /\ Len(inputs0[1].x) # Len(inputs0[2].x)

\* C10: join leaves every field of every input as it was, whether it returns
\* or raises, and an in-place update of the axis table or of the header
\* mapping of the result changes no input either.
C10_InputsNeverChange ==
    \A i \in DOMAIN inputs0 : Deep(inputs[i], heap) = inputs0[i]

(***************************************************************************)
(* Claims about the segment driver on well-formed files (SpecParse).       *)
(***************************************************************************)
\* the row counts of the segments of the well-formed files within the bounds
SegmentRowCounts == UNION {[1..n -> 1..MaxRows] : n \in 1..MaxSegments}

\* the lines of segment i with r data rows
SegmentText(i, r) ==
    <<RAS_HEADER_START>> \o FileHeaderText(i) \o <<RAS_HEADER_END, RAS_INT_START>>
    \o [k \in 1..r |-> RowText(k)] \o <<RAS_INT_END>>

RECURSIVE SegmentsText(_, _)
SegmentsText(rs, n) ==
    IF n = 0 THEN <<>> ELSE SegmentsText(rs, n - 1) \o SegmentText(n, rs[n])

\* the well-formed file whose i-th segment has rs[i] rows
FileText(rs) == <<RAS_DATA_START>> \o SegmentsText(rs, Len(rs)) \o <<RAS_DATA_END>>

\* what has been read belongs to the well-formed file f
ReadingFile(f) ==
    /\ Len(lines) <= Len(f.text)
    /\ lines = SubSeq(f.text, 1, Len(lines))
    /\ closed => lines = f.text

SegmentStates ==
    <<"ExpectHeaderStart", "InHeader", "ExpectIntStart", "InIntBlock", "SegmentDone">>

RECURSIVE ExpectedTrail(_)
ExpectedTrail(n) ==
    IF n = 0 THEN <<"ExpectFileStart">> ELSE ExpectedTrail(n - 1) \o SegmentStates

\* the Dataset of segment i alone
ExpectedDataset(i, r) ==
    Interpret(HeaderFrom(FileHeaderText(i), Len(FileHeaderText(i))), Rows(r), FALSE).v

\* the well-formed files within the bounds: the row counts of the segments,
\* the lines, and the Datasets of the segments
WellFormedFiles ==
    {[rows |-> rs, text |-> FileText(rs),
      data |-> [i \in DOMAIN rs |-> ExpectedDataset(i, rs[i])]] :
        rs \in SegmentRowCounts}

\* on a well-formed file loads has returned the Datasets of its segments
ReturnedSegmentsInOrder ==
    Terminated =>
        \A f \in WellFormedFiles :
            ReadingFile(f) =>
                /\ pc = "returned"
                /\ trail = ExpectedTrail(Len(f.rows)) \o <<"returned">>
                /\ datasets = f.data
                /\ lines = f.text
                /\ index = Len(lines) - 1
                /\ ~closed

\* what bounds the steps of loads: index never passes the end of the input, and
\* each step moves index forward or leaves SegmentDone
StepsTaken == 2 * index + (IF pc = "SegmentDone" THEN 0 ELSE 1)

FilesWithEmptyBlocks ==
    {[rows |-> rs, text |-> FileText(rs)] :
        rs \in UNION {[1..n -> 0..MaxRows] : n \in 1..MaxSegments}}

\* the arrays of Dataset d come from the n rows k, k*k, 2 in their order
ArraysFromRows(d, n) ==
    /\ Len(d.x) = n /\ Len(d.y) = n /\ Len(d.y_err) = n
    /\ \A k \in 1..n :
           /\ d.x[k] = PyFloat(k, 1)
           /\ d.y[k] = PyFloat(k * k * 2, 1)
           /\ d.y_err[k] = YErr(PyFloat(k * k, 1), PyFloat(2, 1))

\* C12: loads returns, for every segment of a well-formed file, a Dataset
\* whose x, y and y_err have one element per data row, in row order, with
\* y[k] = intensity_k * scale_k; a segment with no data row included.
C12_ArraysMatchRows ==
    Terminated =>
        \A f \in FilesWithEmptyBlocks :
            ReadingFile(f) =>
                /\ pc = "returned"
                /\ Len(datasets) = Len(f.rows)
                /\ \A i \in DOMAIN f.rows : ArraysFromRows(datasets[i], f.rows[i])

(***************************************************************************)
(* Claims about the axis table of the Datasets (SpecInterpret).            *)
(***************************************************************************)
\* the coerced header values of the slit box axis (axis index 2)
SlitRaw == it_header[AxisKey("MEAS_COND_AXIS_POSITION-", 2)]

SlitOffsetRaw == it_header[AxisKey("MEAS_COND_AXIS_OFFSET-", 2)]

\* the entries of the axis table that was built: <<label, unit, position, offset>>
SlitBuilt == it_out.v.axis[PyStr(<<"IncidentSlitBox">>)]

AttenuatorEntry == it_out.v.axis[PyStr(W_Attenuator)]

\* C13: for an axis other than the Attenuator a text position ending in "mm"
\* gives unit "mm" and the numeric prefix as position; else the text "None"
\* gives the null position; else the text "-" gives NaN; a numeric position
\* and any other text are kept; the unit is kept in these cases.  For the
\* Attenuator none of the three rules is applied.  The offset "-" becomes
\* NaN and any other offset is kept as coerced.  The decoding of these
\* positions raises no error.
C13_PositionPrecedence ==
    /\ (Interpreted /\ WaveFlagGiven /\ AttenuatorRaw.tag = "str") => it_out.exc = ""
    /\ (it_pc = "out" /\ it_out.exc = "") =>
           /\ SlitRaw = PyStr(<<"0", ".", "5", "m", "m">>) =>
                  SlitBuilt[2] = PyStr(W_mm) /\ SlitBuilt[3] = PyFloat(1, 2)
           /\ SlitRaw = PyStr(W_None) =>
                  SlitBuilt[2] = PyStr(<<"deg">>) /\ SlitBuilt[3] = PyNone
           /\ SlitRaw = PyStr(W_Dash) =>
                  SlitBuilt[2] = PyStr(<<"deg">>) /\ SlitBuilt[3] = PyNaN
           /\ (IsNum(SlitRaw) \/ SlitRaw = PyStr(<<"P", "S", "A">>)) =>
                  SlitBuilt[2] = PyStr(<<"deg">>) /\ SlitBuilt[3] = SlitRaw
           /\ SlitBuilt[4] = (IF SlitOffsetRaw = PyStr(W_Dash) THEN PyNaN
                              ELSE SlitOffsetRaw)
           /\ AttenuatorEntry[2] = PyStr(<<>>)
           /\ AttenuatorEntry[3] \notin {PyNone, PyNaN}
           /\ AttenuatorRaw = PyStr(<<"2", "m", "m">>) =>
                  AttenuatorEntry[3] = AttenuatorRaw
           /\ AttenuatorEntry[4] = PyNaN

\* C13 witness: a Dataset was built from a slit box position "0.5mm" with a
\* numeric offset and an Attenuator position "2mm"
C13_Witness ==
    /\ it_pc = "out" /\ it_out.exc = ""
    /\ SlitRaw = PyStr(<<"0", ".", "5", "m", "m">>)
    /\ SlitOffsetRaw = PyFloat(1, 10)
    /\ AttenuatorRaw = PyStr(<<"2", "m", "m">>)
    /\ SlitBuilt[2] = PyStr(W_mm)

(***************************************************************************)
(* SpecRepeat: loads is called twice on the same bytes; in between and     *)
(* during the second call the caller parses other bytes and joins what the *)
(* first call returned.  A call finds in its locals whatever an earlier    *)
(* call left there: only what the code assigns is fresh.                   *)
(***************************************************************************)
\* the one-segment file with one data row replaced by row
FileWithRow(row) ==
    <<RAS_DATA_START>>
    \o <<RAS_HEADER_START>> \o FileHeaderText(1) \o <<RAS_HEADER_END, RAS_INT_START>>
    \o <<RowText(1), row>> \o <<RAS_INT_END, RAS_DATA_END>>

\* the inputs: the well-formed files, the files with an empty data block, the
\* truncations of the smallest file, and files with a malformed row
RepeatFiles ==
    {f.text : f \in FilesWithEmptyBlocks}
    \cup {SubSeq(FileText(<<1>>), 1, k) : k \in 1..(Len(FileText(<<1>>)) - 1)}
    \cup {FileWithRow(ShortRow), FileWithRow(BadRow), FileWithRow(EMPTY), <<EMPTY>>}

RepeatInit ==
    /\ py3 = TRUE
    /\ npRagged \in BOOLEAN
    /\ pc = "ExpectFileStart"
    /\ lines \in RepeatFiles
    /\ closed = TRUE
    /\ index = 0
    /\ header = EmptyDict
    /\ values = <<>>
    /\ datasets = <<>>
    /\ result = NoExc
    /\ trail = <<"ExpectFileStart">>
    /\ CvIdle /\ ItIdle /\ JnIdle /\ RpIdle /\ CmIdle

\* the first call is over; loads is called again on the same bytes
LoadsAgain ==
    /\ run = 1
    /\ Terminated
    /\ run' = 2
    /\ first' = Outcome(pc = "returned", datasets, result)
    /\ pc' = "ExpectFileStart"
    /\ trail' = <<"ExpectFileStart">>
    /\ result' = NoExc
    /\ UNCHANGED <<py3, npRagged, cmVars, lines, closed, index, header, values, datasets,
                   others, cvVars, itVars, jnVars>>

\* between the two calls loads runs on a well-formed file of other bytes
LoadsOther ==
    /\ run = 2
    /\ pc = "ExpectFileStart"
    /\ others = 0
    /\ others' = 1
    /\ \E f \in WellFormedFiles :
           /\ f.rows \in {<<1>>, <<2, 1>>}
           /\ f.text # lines
           /\ index' = Len(f.text) - 1
           /\ header' = HeaderFrom(FileHeaderText(Len(f.rows)),
                                   Len(FileHeaderText(Len(f.rows))))
           /\ values' = Rows(f.rows[Len(f.rows)])
           /\ datasets' = f.data
    /\ UNCHANGED <<py3, npRagged, cmVars, pc, lines, closed, result, trail, run, first,
                   cvVars, itVars, jnVars>>

\* the caller hands the list the first call returned to join
JoinReturned ==
    /\ run = 2
    /\ first.returned
    /\ jn_pc = "idle"
    /\ jn_pc' = "in"
    /\ inputs0' = first.datasets
    /\ inputs' = [i \in DOMAIN first.datasets |-> DictOf(first.datasets[i], i)]
    /\ heap' = HeapOf(first.datasets)
    /\ UNCHANGED <<py3, npRagged, cmVars, joined, jn_out, rpVars, cvVars, psVars, itVars>>

RepeatNext == ParseNext \/ LoadsAgain \/ LoadsOther \/ JoinReturned \/ JoinCall

SpecRepeat == RepeatInit /\ [][RepeatNext]_vars

\* what the first call returned, as its objects are now
FirstNow ==
    IF jn_pc = "idle" THEN first
    ELSE [first EXCEPT !.datasets = [i \in DOMAIN inputs |-> Deep(inputs[i], heap)]]

\* C14: two calls of loads on the same bytes give the same outcome, the same
\* Dataset list (sentinels included) or the same error, whatever calls of
\* loads on other bytes and of join are made in between.
C14_SameBytesSameOutcome ==
    (run = 2 /\ Terminated) =>
        /\ Outcome(pc = "returned", datasets, result) = first
        /\ FirstNow = first

\* C14 witness: the second call returned two Datasets after a call on other
\* bytes and a join of what the first call returned
C14_Witness ==
    /\ run = 2 /\ pc = "returned"
    /\ Len(datasets) = 2
    /\ others = 1
    /\ jn_pc = "returned"

(***************************************************************************)
(* SpecCache: the calls of use_redis, get_cache and get_file_cache on the  *)
(* singleton CACHE_MANAGER of dataflow/cache.py.  Whether a connection to  *)
(* redis can be made is for the environment to decide at each attempt.     *)
(***************************************************************************)
\* CacheManager.set_test_cache, lines 84-90, on the state c: a new memory
\* cache and a new file cache
SetTestCache(c) ==
    [c EXCEPT !.objs = c.objs \o <<"memory", "file">>,
              !.cache = Len(c.objs) + 1,
              !.file_cache = Len(c.objs) + 2]

\* CacheManager._connect, lines 73-82; up says whether redis_connect returns
\* a connection or raises
Connect(c, up) ==
    IF c.cache = 0 /\ c.kwargs # "None"
    THEN IF up
         THEN [c EXCEPT !.objs = Append(c.objs, "redis"),
                        !.cache = Len(c.objs) + 1, !.redis = "connected"]
         ELSE [c EXCEPT !.redis = "failed", !.exc = "NameError"]
    ELSE SetTestCache(c)

\* the fields of the singleton before a call
Manager ==
    [cache |-> cm_cache, file_cache |-> cm_file_cache, kwargs |-> cm_redis_kwargs,
     objs |-> cm_objs, warned |-> cm_warned, redis |-> "untried", exc |-> ""]

\* the fields of the singleton and the record of the call, after a call that
\* left the singleton as c and returned ret
Called(op, c, ret) ==
    /\ cm_cache' = c.cache
    /\ cm_file_cache' = c.file_cache
    /\ cm_redis_kwargs' = c.kwargs
    /\ cm_objs' = c.objs
    /\ cm_warned' = c.warned
    /\ cm_last' = [n |-> cm_last.n + 1, op |-> op, redis |-> c.redis,
                   exc |-> c.exc, ret |-> IF c.exc = "" THEN ret ELSE 0]
    /\ cm_got' = IF op = "get_cache" /\ c.exc = "" THEN Append(cm_got, ret)
                 ELSE cm_got

CallsLeft == cm_last.n < MaxCalls

\* CacheManager.use_redis, lines 92-103
UseRedis ==
    /\ CallsLeft
    /\ IF cm_cache # 0
       THEN Called("use_redis", [Manager EXCEPT !.exc = "RuntimeError"], 0)
       ELSE Called("use_redis", [Manager EXCEPT !.kwargs = "given"], 0)
    /\ UNCHANGED <<py3, npRagged, cvVars, psVars, itVars, jnVars, rpVars>>

\* CacheManager.get_cache, lines 105-110
GetCache ==
    /\ CallsLeft
    /\ \E up \in BOOLEAN :
           Called("get_cache", Connect(Manager, up), Connect(Manager, up).cache)
    /\ UNCHANGED <<py3, npRagged, cvVars, psVars, itVars, jnVars, rpVars>>

\* CacheManager.get_file_cache, lines 112-117
GetFileCache ==
    /\ CallsLeft
    /\ \E up \in BOOLEAN :
           Called("get_file_cache", Connect(Manager, up),
                  IF Connect(Manager, up).file_cache # 0
                  THEN Connect(Manager, up).file_cache
                  ELSE Connect(Manager, up).cache)
    /\ UNCHANGED <<py3, npRagged, cvVars, psVars, itVars, jnVars, rpVars>>

CacheInit ==
    /\ py3 = TRUE
    /\ npRagged = FALSE
    /\ CvIdle /\ PsIdle /\ ItIdle /\ JnIdle /\ RpIdle /\ CmIdle

CacheNext == UseRedis \/ GetCache \/ GetFileCache

SpecCache == CacheInit /\ [][CacheNext]_vars

(***************************************************************************)
(* Claims about the cache manager (SpecCache).                             *)
(***************************************************************************)
\* C15: every call of get_cache returns the cache connection the first call
\* returned, a redis connection or an in-memory cache.
C15_OneSharedCache ==
    \A i \in DOMAIN cm_got :
        /\ cm_got[i] = cm_got[1]
        /\ cm_objs[cm_got[i]] \in {"redis", "memory"}

\* C16: when use_redis has been called, get_cache does not raise; when the
\* connection to redis fails it issues a warning and returns an in-memory
\* cache.
C16_RedisFailureFallsBack ==
    (cm_last.op = "get_cache" /\ cm_redis_kwargs = "given") =>
        /\ cm_last.exc = ""
        /\ cm_last.ret # 0
        /\ cm_last.redis = "failed" =>
               cm_warned > 0 /\ cm_objs[cm_last.ret] = "memory"

====
